---- MODULE Spec2Model ----
(***************************************************************************)
(* Model of the bitswap query manager (src/src/query.rs) and of the parts  *)
(* of the behaviour orchestrator (src/src/behaviour.rs) that drive it.     *)
(*                                                                         *)
(* The manager is a record [id_counter, queries, events, panicked]; every  *)
(* method of QueryManager is an operator from manager to manager, so that  *)
(* a public operation (which calls several private methods) is one action. *)
(***************************************************************************)
EXTENDS Integers, Sequences, FiniteSets, TLC

VARIABLES
    id_counter,   \* QueryManager::id_counter
    queries,      \* QueryManager::queries: QueryId -> Query
    events,       \* QueryManager::events: VecDeque<QueryEvent>
    panicked,     \* TRUE once an assert!/unwrap of the manager has failed
    issued,       \* history: sub-query id -> (request, root), for every Request next() returned
    roots,        \* history: ids handed out by the public get()/sync()
    completed,    \* history: (id, res) of every Complete event ever enqueued
    cancelled,    \* history: ids for which cancel() returned true
    block_not_found, \* Bitswap: the counter bitswap_block_not_found_total
    requests,     \* Bitswap::requests: BitswapId -> QueryId
    db_tx,        \* the channel to the store worker: DbRequests sent, not yet executed
    db_rx,        \* the channel from the store worker: DbResponses not yet taken
    store,        \* the cids of the blocks the BitswapStore holds
    pc,           \* Bitswap::poll: the loop it is in ("db", "next" or "inner")
    db_done,      \* history: the DbRequests the worker has executed, in order
    surfaced,     \* history: the BitswapEvents poll has returned to the host
    inbound,      \* history: number of requests received from peers
    outstanding,  \* the transport: the BitswapIds of the requests sent and not answered
    codec,        \* BitswapCodec: the last frame it handled and what it returned
    failures,     \* Bitswap: the counters bitswap_{outbound,inbound}_failure_total
    lastOp,       \* history: the last operation or step, its argument and result
    limits        \* the limits of the exploration, fixed by the initial state

\* the state of the orchestrator and of the store worker around the manager
node == <<requests, db_tx, db_rx, store, pc, db_done, surfaced, inbound, outstanding,
          codec, failures>>

vars == <<id_counter, queries, events, panicked, issued, roots, completed, cancelled,
          block_not_found, lastOp, limits, node>>

----------------------------------------------------------------------------
(* Bounds of the model *)

MaxId == 5          \* Spec: ids 0..MaxId-1 may be assigned
MaxRoots == 2       \* Spec: public get()/sync() calls
MaxIdOps == 4       \* SpecOps: ids 0..MaxIdOps-1 may be assigned
MaxRootsOps == 2    \* SpecOps: public get()/sync() calls
MaxIdDeep == 6      \* SpecDeep: ids 0..MaxIdDeep-1 may be assigned
MaxRootsDeep == 1   \* SpecDeep: public get()/sync() calls
MaxIdNode == 4      \* SpecNode: ids 0..MaxIdNode-1 may be assigned
MaxRootsNode == 1   \* SpecNode: public get()/sync() calls
MaxDbRequests == 3  \* SpecWorker: requests sent to the worker
MaxIdFailures == 3  \* SpecFailures: ids 0..MaxIdFailures-1 may be assigned
MaxRootsFailures == 1  \* SpecFailures: public get()/sync() calls
MaxFailures == 2    \* SpecFailures: failures the transport reports
MaxIdDag == 7       \* SpecDag: ids 0..MaxIdDag-1 may be assigned
MaxRootsDag == 1    \* SpecDag: public sync() calls
MaxFrameLen == 120  \* SpecCodec: payload lengths 0..MaxFrameLen
MAX_BLOCK_SIZE == 110  \* SpecCodec: StoreParams::MAX_BLOCK_SIZE of the store

\* protocol.rs: const MAX_CID_SIZE: usize = 4 * 10 + 64
MAX_CID_SIZE == 4 * 10 + 64

Peers == {"p1", "p2"}
Cids == {"c1", "c2"}

\* the providers lists and the lists of missing cids the host and the store hand
\* to the manager (up to renaming of peers and cids)
PeerLists == {<< >>, <<"p1">>, <<"p1", "p2">>, <<"p2", "p1", "p2">>}
CidLists == {<< >>, <<"c1">>, <<"c2", "c1">>}

----------------------------------------------------------------------------
(* Data model *)

NoneId == -1        \* Option<QueryId>::None
NoPeer == "none"
NoCid == "none"

\* Result<(), Cid>
Ok == [ok |-> TRUE, cid |-> NoCid]
Err(cid) == [ok |-> FALSE, cid |-> cid]

\* enum Request
NoRequest == [kind |-> "none", peer |-> NoPeer, cid |-> NoCid]
RequestHave(peer, cid) == [kind |-> "Have", peer |-> peer, cid |-> cid]
RequestBlock(peer, cid) == [kind |-> "Block", peer |-> peer, cid |-> cid]
RequestMissingBlocks(cid) == [kind |-> "MissingBlocks", peer |-> NoPeer, cid |-> cid]

\* enum Response
ResponseHave(peer, have) == [kind |-> "Have", peer |-> peer, ok |-> have, missing |-> <<>>]
ResponseBlock(peer, block) == [kind |-> "Block", peer |-> peer, ok |-> block, missing |-> <<>>]
ResponseMissingBlocks(missing) == [kind |-> "MissingBlocks", peer |-> NoPeer, ok |-> FALSE, missing |-> missing]

\* enum QueryEvent
QueryEventRequest(id, req) == [type |-> "Request", id |-> id, req |-> req, n |-> 0, res |-> Ok]
QueryEventProgress(id, n) == [type |-> "Progress", id |-> id, req |-> NoRequest, n |-> n, res |-> Ok]
QueryEventComplete(id, res) == [type |-> "Complete", id |-> id, req |-> NoRequest, n |-> 0, res |-> res]

\* enum State, struct GetState, struct SyncState
StateNone == [kind |-> "None", have |-> {}, block |-> NoneId, providers |-> <<>>,
              missing |-> {}, children |-> {}]
GetStateDefault == [StateNone EXCEPT !.kind = "Get"]
SyncStateDefault == [StateNone EXCEPT !.kind = "Sync"]

\* struct Query (header fields and state)
Query(id, root, parent, cid, label, state) ==
    [id |-> id, root |-> root, parent |-> parent, cid |-> cid, label |-> label, state |-> state]

\* enum Transition
TransitionNext(mgr, state) == [mgr |-> mgr, next |-> TRUE, state |-> state, res |-> Ok]
\* a Complete transition that loses the error of its result
TransitionCompleteOk(mgr, res) == [mgr |-> mgr, next |-> FALSE, state |-> StateNone, res |-> Ok]

TransitionComplete(mgr, res) == [mgr |-> mgr, next |-> FALSE, state |-> StateNone, res |-> res]

\* FnvHashMap::insert / remove
MapInsert(f, k, v) == [x \in (DOMAIN f) \cup {k} |-> IF x = k THEN v ELSE f[x]]
MapRemove(f, k) == [x \in (DOMAIN f) \ {k} |-> f[x]]
MapRemoveAll(f, ks) == [x \in (DOMAIN f) \ ks |-> f[x]]

Last(s) == s[Len(s)]
Front(s) == SubSeq(s, 1, Len(s) - 1)

\* QueryManager after a panic: the call that panicked never returns
Panic(m) == [m EXCEPT !.panicked = TRUE]

----------------------------------------------------------------------------
(* QueryManager: starting queries *)

\* start_query() that does not advance the counter
start_query_same_id(m, root, parent, cid, req, label) ==
    LET id == m.id_counter
    IN [m EXCEPT !.queries = MapInsert(@, id, Query(id, root, parent, cid, label, StateNone)),
                 !.events = Append(@, QueryEventRequest(id, req))]

start_query(m, root, parent, cid, req, label) ==
    LET id == m.id_counter
    IN [m EXCEPT !.id_counter = id + 1,
                 !.queries = MapInsert(@, id, Query(id, root, parent, cid, label, StateNone)),
                 !.events = Append(@, QueryEventRequest(id, req))]

have(m, root, parent, peer_id, cid) ==
    start_query(m, root, parent, cid, RequestHave(peer_id, cid), "have")

\* block() that takes the parent for the root of the tree
block_rooted_at_parent(m, root, parent, peer_id, cid) ==
    start_query(m, parent, parent, cid, RequestBlock(peer_id, cid), "block")

block(m, root, parent, peer_id, cid) ==
    start_query(m, root, parent, cid, RequestBlock(peer_id, cid), "block")

missing_blocks(m, parent, cid) ==
    start_query(m, parent, parent, cid, RequestMissingBlocks(cid), "missing-blocks")

\* get_providers() without the test of state.block: every provider is asked for the
\* block and the last request is the one kept in state.block
RECURSIVE get_providers_all_block(_, _, _, _, _, _)
get_providers_all_block(m, state, root, id, cid, providers) ==
    IF providers = <<>> THEN [mgr |-> m, state |-> state]
    ELSE get_providers_all_block(block(m, root, id, Head(providers), cid),
                                 [state EXCEPT !.block = m.id_counter],
                                 root, id, cid, Tail(providers))

\* the loop `for peer in providers` of get()
RECURSIVE get_providers(_, _, _, _, _, _)
get_providers(m, state, root, id, cid, providers) ==
    IF providers = <<>> THEN [mgr |-> m, state |-> state]
    ELSE IF state.block = NoneId
         THEN get_providers(block(m, root, id, Head(providers), cid),
                            [state EXCEPT !.block = m.id_counter],
                            root, id, cid, Tail(providers))
         ELSE get_providers(have(m, root, id, Head(providers), cid),
                            [state EXCEPT !.have = @ \cup {m.id_counter}],
                            root, id, cid, Tail(providers))

\* get() with a header that forgets the parent
get_without_parent(m, parent, cid, providers) ==
    LET id == m.id_counter
        root == IF parent = NoneId THEN id ELSE parent
        r == get_providers([m EXCEPT !.id_counter = id + 1], GetStateDefault,
                           root, id, cid, providers)
    IN IF r.state.block = NoneId
       THEN Panic(r.mgr)
       ELSE [r.mgr EXCEPT !.queries = MapInsert(@, id, Query(id, root, NoneId, cid, "get", r.state))]

\* get(): the new query's id is m.id_counter
get(m, parent, cid, providers) ==
    LET id == m.id_counter
        root == IF parent = NoneId THEN id ELSE parent
        r == get_providers([m EXCEPT !.id_counter = id + 1], GetStateDefault,
                           root, id, cid, providers)
    IN IF r.state.block = NoneId
       THEN Panic(r.mgr)
       ELSE [r.mgr EXCEPT !.queries = MapInsert(@, id, Query(id, root, parent, cid, "get", r.state))]

\* the loop `for cid in missing` of sync() and of recv_missing_blocks()
RECURSIVE get_missing(_, _, _, _, _)
get_missing(m, state, parent, providers, missing) ==
    IF missing = <<>> \/ m.panicked THEN [mgr |-> m, state |-> state]
    ELSE get_missing(get(m, parent, Head(missing), providers),
                     [state EXCEPT !.missing = @ \cup {m.id_counter}],
                     parent, providers, Tail(missing))

\* sync() that queues the store probe of its own cid whatever missing holds
sync_always_probe(m, cid, providers, missing) ==
    LET id == m.id_counter
        r == get_missing([m EXCEPT !.id_counter = id + 1], SyncStateDefault, id, providers, missing)
        m2 == missing_blocks(r.mgr, id, cid)
        s2 == [r.state EXCEPT !.children = @ \cup {r.mgr.id_counter}]
        s3 == [s2 EXCEPT !.providers = providers]
    IN IF r.mgr.panicked THEN r.mgr
       ELSE [m2 EXCEPT !.queries = MapInsert(@, id, Query(id, id, NoneId, cid, "sync", s3))]

\* sync(): the new query's id is m.id_counter
sync(m, cid, providers, missing) ==
    LET id == m.id_counter
        r == get_missing([m EXCEPT !.id_counter = id + 1], SyncStateDefault, id, providers, missing)
        m2 == IF r.state.missing = {} THEN missing_blocks(r.mgr, id, cid) ELSE r.mgr
        s2 == IF r.state.missing = {}
              THEN [r.state EXCEPT !.children = @ \cup {r.mgr.id_counter}]
              ELSE r.state
        s3 == [s2 EXCEPT !.providers = providers]
    IN IF r.mgr.panicked THEN r.mgr
       ELSE [m2 EXCEPT !.queries = MapInsert(@, id, Query(id, id, NoneId, cid, "sync", s3))]

----------------------------------------------------------------------------
(* QueryManager: cancel *)

\* retain closures with a slip: one keeps every Request, one drops every Request
cancel_retain_requests(qs, root, event) ==
    event.type = "Progress" => event.id # root

cancel_retain_no_request(qs, root, event) ==
    CASE event.type = "Progress" -> event.id # root
      [] event.type = "Complete" -> TRUE
      [] OTHER -> FALSE

\* the closure given to self.events.retain in cancel(); qs is the map after the
\* removal of root
cancel_retain(qs, root, event) ==
    CASE event.type = "Progress" -> event.id # root
      [] event.type = "Complete" -> TRUE
      [] OTHER -> ~(event.id \in DOMAIN qs /\ qs[event.id].root = root)

\* a cancel that removes nothing and reports success
cancel_reports_true(m, root) == [mgr |-> m, ret |-> TRUE]

\* cancel() that does not put a stateless sub-query back
cancel_drops_leaf(m, root) ==
    IF root \notin DOMAIN m.queries THEN [mgr |-> m, ret |-> FALSE]
    ELSE LET query == m.queries[root]
             qs == MapRemove(m.queries, root)
             evs == SelectSeq(m.events, LAMBDA e : cancel_retain(qs, root, e))
             m1 == [m EXCEPT !.queries = qs, !.events = evs]
         IN CASE query.state.kind = "Get" -> [mgr |-> m1, ret |-> TRUE]
              [] query.state.kind = "Sync" ->
                    [mgr |-> [m1 EXCEPT !.queries = MapRemoveAll(@, query.state.missing)],
                     ret |-> TRUE]
              [] OTHER -> [mgr |-> m1, ret |-> FALSE]

\* cancel(): [mgr, ret]
cancel(m, root) ==
    IF root \notin DOMAIN m.queries THEN [mgr |-> m, ret |-> FALSE]
    ELSE LET query == m.queries[root]
             qs == MapRemove(m.queries, root)
             evs == SelectSeq(m.events, LAMBDA e : cancel_retain(qs, root, e))
             m1 == [m EXCEPT !.queries = qs, !.events = evs]
         IN CASE query.state.kind = "Get" -> [mgr |-> m1, ret |-> TRUE]
              [] query.state.kind = "Sync" ->
                    [mgr |-> [m1 EXCEPT !.queries = MapRemoveAll(@, query.state.missing)],
                     ret |-> TRUE]
              [] OTHER -> [mgr |-> [m1 EXCEPT !.queries = MapInsert(@, root, query)],
                           ret |-> FALSE]

----------------------------------------------------------------------------
(* QueryManager: completion of composites *)

\* recv_sync(): the sync query emits a Complete event
recv_sync(m, query, res) ==
    [m EXCEPT !.events = Append(@, QueryEventComplete(query.id, res))]

\* sync_query(): F(mgr, parent, state) is the transition closure
sync_query(m, id, F(_, _, _)) ==
    IF id \notin DOMAIN m.queries THEN m
    ELSE LET parent == m.queries[id]
             m1 == [m EXCEPT !.queries = MapRemove(@, id)]
         IN IF parent.state.kind # "Sync" THEN m1
            ELSE LET t == F(m1, parent, parent.state)
                 IN IF t.mgr.panicked THEN t.mgr
                    ELSE IF t.next
                    THEN [t.mgr EXCEPT !.queries = MapInsert(@, id, [parent EXCEPT !.state = t.state])]
                    ELSE recv_sync(t.mgr, parent, t.res)

\* the closure recv_get() gives to sync_query()
recv_get_transition(mgr, parent, state, query, res) ==
    LET s1 == [state EXCEPT !.missing = @ \ {query.id}]
    IN IF ~res.ok THEN TransitionComplete(mgr, res)
       ELSE TransitionNext(missing_blocks(mgr, parent.root, query.cid),
                           [s1 EXCEPT !.children = @ \cup {mgr.id_counter}])

\* recv_get(): a finished get feeds its parent sync, or emits a Complete event
recv_get(m, query, res) ==
    IF query.parent # NoneId
    THEN sync_query(m, query.parent,
                    LAMBDA mgr, parent, state : recv_get_transition(mgr, parent, state, query, res))
    ELSE [m EXCEPT !.events = Append(@, QueryEventComplete(query.id, res))]

\* get_query(): F(mgr, parent, state) is the transition closure
get_query(m, id, F(_, _, _)) ==
    IF id \notin DOMAIN m.queries THEN m
    ELSE LET parent == m.queries[id]
             m1 == [m EXCEPT !.queries = MapRemove(@, id)]
         IN IF parent.state.kind # "Get" THEN m1
            ELSE LET t == F(m1, parent, parent.state)
                 IN IF t.next
                    THEN [t.mgr EXCEPT !.queries = MapInsert(@, id, [parent EXCEPT !.state = t.state])]
                    ELSE recv_get(t.mgr, parent, t.res)

----------------------------------------------------------------------------
(* QueryManager: responses *)

\* the closure of recv_have() with a termination test that looks at the block slot
\* and the providers only, not at the outstanding have probes
recv_have_ignores_probes(mgr, parent, state, query, peer_id, have_) ==
    LET s1 == [state EXCEPT !.have = @ \ {query.id}]
        s2 == IF s1.block = query.id THEN [s1 EXCEPT !.block = NoneId] ELSE s1
        s3 == IF have_ THEN [s2 EXCEPT !.providers = Append(@, peer_id)] ELSE s2
        promote == s3.block = NoneId /\ s3.providers # <<>>
        mgr1 == IF promote
                THEN block(mgr, parent.root, parent.id, Last(s3.providers), query.cid)
                ELSE mgr
        s4 == IF promote
              THEN [s3 EXCEPT !.block = mgr.id_counter, !.providers = Front(@)]
              ELSE s3
    IN IF s4.block = NoneId /\ s4.providers = <<>>
       THEN TransitionComplete(mgr1, Err(query.cid))
       ELSE TransitionNext(mgr1, s4)

\* the closure of recv_have() that asks the newest provider for the block without
\* looking at the block slot
recv_have_promotes_always(mgr, parent, state, query, peer_id, have_) ==
    LET s1 == [state EXCEPT !.have = @ \ {query.id}]
        s2 == IF s1.block = query.id THEN [s1 EXCEPT !.block = NoneId] ELSE s1
        s3 == IF have_ THEN [s2 EXCEPT !.providers = Append(@, peer_id)] ELSE s2
        promote == s3.providers # <<>>
        mgr1 == IF promote
                THEN block(mgr, parent.root, parent.id, Last(s3.providers), query.cid)
                ELSE mgr
        s4 == IF promote
              THEN [s3 EXCEPT !.block = mgr.id_counter, !.providers = Front(@)]
              ELSE s3
    IN IF s4.have = {} /\ s4.block = NoneId /\ s4.providers = <<>>
       THEN TransitionComplete(mgr1, Err(query.cid))
       ELSE TransitionNext(mgr1, s4)

\* the closure of recv_have() that never asks a fallback provider for the block
recv_have_never_promotes(mgr, parent, state, query, peer_id, have_) ==
    LET s1 == [state EXCEPT !.have = @ \ {query.id}]
        s2 == IF s1.block = query.id THEN [s1 EXCEPT !.block = NoneId] ELSE s1
        s3 == IF have_ THEN [s2 EXCEPT !.providers = Append(@, peer_id)] ELSE s2
    IN IF s3.have = {} /\ s3.block = NoneId /\ s3.providers = <<>>
       THEN TransitionComplete(mgr, Err(query.cid))
       ELSE TransitionNext(mgr, s3)

\* the closure of recv_have() that asks the provider that has waited longest
recv_have_promotes_oldest(mgr, parent, state, query, peer_id, have_) ==
    LET s1 == [state EXCEPT !.have = @ \ {query.id}]
        s2 == IF s1.block = query.id THEN [s1 EXCEPT !.block = NoneId] ELSE s1
        s3 == IF have_ THEN [s2 EXCEPT !.providers = Append(@, peer_id)] ELSE s2
        promote == s3.block = NoneId /\ s3.providers # <<>>
        mgr1 == IF promote
                THEN block(mgr, parent.root, parent.id, Head(s3.providers), query.cid)
                ELSE mgr
        s4 == IF promote
              THEN [s3 EXCEPT !.block = mgr.id_counter, !.providers = Tail(@)]
              ELSE s3
    IN IF s4.have = {} /\ s4.block = NoneId /\ s4.providers = <<>>
       THEN TransitionComplete(mgr1, Err(query.cid))
       ELSE TransitionNext(mgr1, s4)

\* the closure recv_have() gives to get_query()
recv_have_transition(mgr, parent, state, query, peer_id, have_) ==
    LET s1 == [state EXCEPT !.have = @ \ {query.id}]
        s2 == IF s1.block = query.id THEN [s1 EXCEPT !.block = NoneId] ELSE s1
        s3 == IF have_ THEN [s2 EXCEPT !.providers = Append(@, peer_id)] ELSE s2
        promote == s3.block = NoneId /\ s3.providers # <<>>
        mgr1 == IF promote
                THEN block(mgr, parent.root, parent.id, Last(s3.providers), query.cid)
                ELSE mgr
        s4 == IF promote
              THEN [s3 EXCEPT !.block = mgr.id_counter, !.providers = Front(@)]
              ELSE s3
    IN IF s4.have = {} /\ s4.block = NoneId /\ s4.providers = <<>>
       THEN IF s4.providers = <<>>
            THEN TransitionComplete(mgr1, Err(query.cid))
            ELSE TransitionComplete(mgr1, Ok)
       ELSE TransitionNext(mgr1, s4)

recv_have(m, query, peer_id, have_) ==
    IF query.parent = NoneId THEN Panic(m)
    ELSE get_query(m, query.parent,
                   LAMBDA mgr, parent, state :
                       recv_have_transition(mgr, parent, state, query, peer_id, have_))

\* the closure of recv_block() that reports the received block as not found
recv_block_transition_err(mgr, parent, state, peer_id) ==
    TransitionComplete(mgr, Err(parent.cid))

\* the closure recv_block() gives to get_query() for a received block
recv_block_transition(mgr, parent, state, peer_id) ==
    TransitionComplete(mgr, Ok)

\* recv_block() that handles a received block like a positive have answer
recv_block_as_have(m, query, peer_id, block_) ==
    recv_have(m, query, peer_id, block_)

recv_block(m, query, peer_id, block_) ==
    IF block_
    THEN IF query.parent = NoneId THEN Panic(m)
         ELSE get_query(m, query.parent,
                        LAMBDA mgr, parent, state : recv_block_transition(mgr, parent, state, peer_id))
    ELSE recv_have(m, query, peer_id, block_)

\* the closure of recv_missing_blocks() with a completion test that looks at the
\* store probes only, not at the child gets
recv_missing_blocks_ignores_gets(mgr, parent, state, query, missing) ==
    LET s1 == [state EXCEPT !.children = @ \ {query.id}]
        r == get_missing(mgr, s1, parent.root, s1.providers, missing)
    IN IF r.state.children = {}
       THEN TransitionComplete(r.mgr, Ok)
       ELSE TransitionNext(r.mgr, r.state)

\* the closure recv_missing_blocks() gives to sync_query()
recv_missing_blocks_transition(mgr, parent, state, query, missing) ==
    LET s1 == [state EXCEPT !.children = @ \ {query.id}]
        r == get_missing(mgr, s1, parent.root, s1.providers, missing)
    IN IF r.state.missing = {} /\ r.state.children = {}
       THEN TransitionComplete(r.mgr, Ok)
       ELSE TransitionNext(r.mgr, r.state)

\* num_missing taken from the list received instead of the sync's missing set
recv_missing_blocks_num_of_list(m, query, missing) == Len(missing)

\* num_missing of recv_missing_blocks(): state.missing.len() as the closure stored
\* it through num_missing_ref, 0 when sync_query() never ran the closure
recv_missing_blocks_num(m, query, missing) ==
    IF query.parent \in DOMAIN m.queries /\ m.queries[query.parent].state.kind = "Sync"
    THEN LET parent == m.queries[query.parent]
             s1 == [parent.state EXCEPT !.children = @ \ {query.id}]
             r == get_missing([m EXCEPT !.queries = MapRemove(@, parent.id)], s1,
                              parent.root, s1.providers, missing)
         IN Cardinality(r.state.missing)
    ELSE 0

recv_missing_blocks(m, query, missing) ==
    IF query.parent = NoneId THEN Panic(m)
    ELSE LET num_missing == recv_missing_blocks_num(m, query, missing)
             m1 == sync_query(m, query.parent,
                              LAMBDA mgr, parent, state :
                                  recv_missing_blocks_transition(mgr, parent, state, query, missing))
         IN IF m1.panicked \/ num_missing = 0 THEN m1
            ELSE [m1 EXCEPT !.events = Append(@, QueryEventProgress(query.root, num_missing))]

\* inject_response(): dispatches the response to the handler of the sub-query
inject_response(m, id, res) ==
    IF id \notin DOMAIN m.queries THEN m
    ELSE LET query == m.queries[id]
             m1 == [m EXCEPT !.queries = MapRemove(@, id)]
         IN CASE res.kind = "Have" -> recv_have(m1, query, res.peer, res.ok)
              [] res.kind = "Block" -> recv_block(m1, query, res.peer, res.ok)
              [] OTHER -> recv_missing_blocks(m1, query, res.missing)

----------------------------------------------------------------------------
(* The manager as the program holds it, and the public operations as actions *)

Mgr == [id_counter |-> id_counter, queries |-> queries, events |-> events,
        panicked |-> panicked]

SetMgr(m) ==
    /\ id_counter' = m.id_counter
    /\ queries' = m.queries
    /\ events' = m.events
    /\ panicked' = m.panicked

IsComplete(e) == e.type = "Complete"

\* the Complete events among those an operation appended to the queue
NewCompletes(m) ==
    SelectSeq(SubSeq(m.events, Len(events) + 1, Len(m.events)), IsComplete)

\* lastOp is recorded when limits.track is set (SpecOps, SpecNode), and left alone
\* otherwise
Op(op, id, ret, kind) ==
    IF limits.track THEN [op |-> op, id |-> id, ret |-> ret, kind |-> kind] ELSE lastOp

NoOp == [op |-> "new", id |-> NoneId, ret |-> FALSE, kind |-> "none"]

Limits(ids, nroots, track) == [ids |-> ids, roots |-> nroots, track |-> track]

\* responses the orchestrator can inject for a dispatched sub-query
Responses(req) ==
    IF req.kind = "MissingBlocks"
    THEN {ResponseMissingBlocks(l) : l \in CidLists}
    ELSE {ResponseHave(req.peer, b) : b \in BOOLEAN}
         \cup {ResponseBlock(req.peer, b) : b \in BOOLEAN}

\* no frame was handled yet
NoFrame == [op |-> "none", len |-> 0, ok |-> TRUE]

\* QueryManager::default() and Bitswap::new, whatever the store holds
InitBitswap ==
    /\ id_counter = 0
    /\ queries = << >>
    /\ events = << >>
    /\ panicked = FALSE
    /\ issued = << >>
    /\ roots = {}
    /\ completed = << >>
    /\ cancelled = {}
    /\ block_not_found = 0
    /\ lastOp = NoOp
    /\ requests = << >>
    /\ db_tx = << >>
    /\ db_rx = << >>
    /\ pc = "db"
    /\ db_done = << >>
    /\ surfaced = << >>
    /\ inbound = 0
    /\ outstanding = {}
    /\ codec = NoFrame
    /\ failures = [outbound |-> 0, inbound |-> 0]

\* the node starts with an empty store
InitMgr == InitBitswap /\ store = {}

Init == InitMgr /\ limits = Limits(MaxId, MaxRoots, FALSE)

\* Bitswap::get -> QueryManager::get(None, cid, peers)
Get(cid, providers) ==
    LET m == get(Mgr, NoneId, cid, providers)
    IN /\ ~panicked
       /\ Cardinality(roots) < limits.roots
       /\ id_counter + 1 + Len(providers) <= limits.ids
       /\ SetMgr(m)
       /\ roots' = IF m.panicked THEN roots ELSE roots \cup {id_counter}
       /\ completed' = completed \o NewCompletes(m)
       /\ lastOp' = Op("get", id_counter, ~m.panicked, "none")
       /\ UNCHANGED <<issued, cancelled, block_not_found, limits, node>>

\* Bitswap::sync -> QueryManager::sync(cid, peers, missing)
Sync(cid, providers, missing) ==
    LET m == sync(Mgr, cid, providers, missing)
    IN /\ ~panicked
       /\ Cardinality(roots) < limits.roots
       /\ id_counter + 1 + (IF missing = << >> THEN 1
                            ELSE Len(missing) * (1 + Len(providers))) <= limits.ids
       /\ SetMgr(m)
       /\ roots' = IF m.panicked THEN roots ELSE roots \cup {id_counter}
       /\ completed' = completed \o NewCompletes(m)
       /\ lastOp' = Op("sync", id_counter, ~m.panicked, "none")
       /\ UNCHANGED <<issued, cancelled, block_not_found, limits, node>>

\* the ids cancel() is called with: Bitswap::cancel gets a QueryId of the host,
\* which holds the ids get()/sync() returned and those of surfaced events (roots,
\* store probes); Bitswap::poll calls it with the id of a store probe
CancelIds ==
    {id \in 0 .. id_counter :
        id \in roots \/ id \notin DOMAIN queries \/ queries[id].state.kind = "None"}

\* QueryManager::cancel(id)
Cancel(id) ==
    LET r == cancel(Mgr, id)
    IN /\ ~panicked
       /\ SetMgr(r.mgr)
       /\ cancelled' = IF r.ret THEN cancelled \cup {id} ELSE cancelled
       /\ lastOp' = Op("cancel", id, r.ret, "none")
       /\ UNCHANGED <<issued, roots, completed, block_not_found, limits, node>>

\* QueryManager::next() in the loop of Bitswap::poll: pops the front event; a
\* Request is thereby dispatched, a Complete with an error is counted
NextEvent ==
    /\ ~panicked
    /\ events # << >>
    /\ events' = Tail(events)
    /\ issued' = IF Head(events).type = "Request"
                 THEN MapInsert(issued, Head(events).id,
                                [req |-> Head(events).req,
                                 root |-> queries[Head(events).id].root])
                 ELSE issued
    /\ block_not_found' = IF Head(events).type = "Complete" /\ ~Head(events).res.ok
                          THEN block_not_found + 1
                          ELSE block_not_found
    /\ lastOp' = Op("next", Head(events).id, TRUE, Head(events).type)
    /\ UNCHANGED <<id_counter, queries, panicked, roots, completed, cancelled, limits, node>>

\* QueryManager::inject_response(id, res), for the answer to a dispatched request
InjectResponse(id, res) ==
    LET m == inject_response(Mgr, id, res)
    IN /\ ~panicked
       /\ m.id_counter <= limits.ids
       /\ SetMgr(m)
       /\ completed' = completed \o NewCompletes(m)
       /\ lastOp' = Op("inject", id, res.ok, res.kind)
       /\ UNCHANGED <<issued, roots, cancelled, block_not_found, limits, node>>

Next ==
    \/ \E cid \in Cids, providers \in PeerLists : Get(cid, providers)
    \/ \E cid \in Cids, providers \in PeerLists, missing \in CidLists :
           Sync(cid, providers, missing)
    \/ \E id \in CancelIds : Cancel(id)
    \/ NextEvent
    \/ \E id \in DOMAIN issued : \E res \in Responses(issued[id].req) : InjectResponse(id, res)

Spec == Init /\ [][Next]_vars

\* the same program, recording the last operation
InitOps == InitMgr /\ limits = Limits(MaxIdOps, MaxRootsOps, TRUE)

SpecOps == InitOps /\ [][Next]_vars

\* the same program with one root and a deeper tree under it
InitDeep == InitMgr /\ limits = Limits(MaxIdDeep, MaxRootsDeep, FALSE)

SpecDeep == InitDeep /\ [][Next]_vars

----------------------------------------------------------------------------
(* The orchestrator (Bitswap) and the store worker around the manager *)

Channels == {"ch1", "ch2"}
NoChannel == "none"

\* enum BitswapId; send_request returns a fresh RequestId, modelled by the id of
\* the sub-query the request is sent for
BitswapIdBitswap(rid) == [kind |-> "Bitswap", rid |-> rid, cid |-> NoCid]
BitswapIdCompat(cid) == [kind |-> "Compat", rid |-> NoneId, cid |-> cid]

\* enum BitswapResponse; the bytes of a block are modelled by the cid they hash to
BitswapResponseHave(have_) == [kind |-> "Have", have |-> have_, data |-> NoCid]
BitswapResponseBlock(data) == [kind |-> "Block", have |-> FALSE, data |-> data]

\* enum DbRequest
DbRequestBitswap(channel, ty, cid) ==
    [kind |-> "Bitswap", channel |-> channel, ty |-> ty, cid |-> cid, data |-> NoCid, id |-> NoneId]
DbRequestInsert(cid, data) ==
    [kind |-> "Insert", channel |-> NoChannel, ty |-> "none", cid |-> cid, data |-> data, id |-> NoneId]
DbRequestMissingBlocks(id, cid) ==
    [kind |-> "MissingBlocks", channel |-> NoChannel, ty |-> "none", cid |-> cid, data |-> NoCid, id |-> id]

\* enum DbResponse
DbResponseBitswap(channel, response) ==
    [kind |-> "Bitswap", channel |-> channel, response |-> response, id |-> NoneId,
     ok |-> TRUE, missing |-> << >>]
DbResponseMissingBlocks(id, ok, missing) ==
    [kind |-> "MissingBlocks", channel |-> NoChannel, response |-> BitswapResponseHave(FALSE),
     id |-> id, ok |-> ok, missing |-> missing]

\* BitswapEvent
BitswapEvent(type, id, ok) == [type |-> type, id |-> id, ok |-> ok]

\* the DAGs over Cids (up to renaming of cids): the links of each block, in the
\* order the block lists them
Dags ==
    {[c \in Cids |-> << >>],
     [c \in Cids |-> IF c = "c1" THEN <<"c2">> ELSE << >>]}

\* a store that reports every block it holds as complete
store_missing_blocks_shallow(blocks, links, cid) ==
    IF cid \in blocks THEN << >> ELSE <<cid>>

\* BitswapStore::missing_blocks of an accurate store: the blocks of the DAG
\* under cid that the store does not hold, found by following the links of the
\* blocks it holds
RECURSIVE store_missing_blocks(_, _, _)
RECURSIVE store_missing_links(_, _, _)
store_missing_blocks(blocks, links, cid) ==
    IF cid \in blocks THEN store_missing_links(blocks, links, links[cid]) ELSE <<cid>>

store_missing_links(blocks, links, cids) ==
    IF cids = << >> THEN << >>
    ELSE store_missing_blocks(blocks, links, Head(cids))
             \o store_missing_links(blocks, links, Tail(cids))

\* what the BitswapStore can answer to a request: contains/get/insert succeed or
\* fail, missing_blocks returns a list or fails
StoreResults(request) ==
    IF "links" \in DOMAIN limits
    THEN {[ok |-> TRUE, present |-> request.cid \in store,
           missing |-> IF request.kind = "MissingBlocks"
                       THEN store_missing_blocks(store, limits.links, request.cid)
                       ELSE << >>]}
    ELSE IF request.kind = "MissingBlocks"
    THEN {[ok |-> TRUE, present |-> FALSE, missing |-> l] : l \in CidLists}
         \cup {[ok |-> FALSE, present |-> FALSE, missing |-> << >>]}
    ELSE {[ok |-> o, present |-> request.cid \in store, missing |-> << >>] : o \in BOOLEAN}

\* the worker that answers a block request with Have(true) when it holds the block
db_responses_have_only(request, res) ==
    CASE request.kind = "Bitswap" ->
            <<DbResponseBitswap(request.channel, BitswapResponseHave(res.ok /\ res.present))>>
      [] request.kind = "MissingBlocks" ->
            <<DbResponseMissingBlocks(request.id, res.ok, res.missing)>>
      [] OTHER -> << >>

\* the body of the loop of the worker thread: the responses it sends for a request
db_responses(request, res) ==
    CASE request.kind = "Bitswap" /\ request.ty = "Have" ->
            <<DbResponseBitswap(request.channel, BitswapResponseHave(res.ok /\ res.present))>>
      [] request.kind = "Bitswap" /\ request.ty = "Block" ->
            IF res.ok /\ res.present
            THEN <<DbResponseBitswap(request.channel, BitswapResponseBlock(request.cid))>>
            ELSE <<DbResponseBitswap(request.channel, BitswapResponseHave(FALSE))>>
      [] request.kind = "MissingBlocks" ->
            <<DbResponseMissingBlocks(request.id, res.ok, res.missing)>>
      [] OTHER -> << >>

\* a channel that hands over the newest message first
db_send_first(channel, msg) == <<msg>> \o channel

\* mpsc::UnboundedSender::unbounded_send
db_send(channel, msg) == Append(channel, msg)

\* a check of received bytes that accepts everything
validate_anything(cid, data) == TRUE

\* Block::new(info.cid, data).is_ok(): the bytes hash to the cid
validate(cid, data) == data = cid

\* QueryManager::query_info(id): the header of a live query
query_info(m, id) == IF id \in DOMAIN m.queries THEN {m.queries[id]} ELSE {}

\* the history variables of the manager after an operation that took it to m
NodeSetMgr(m) ==
    /\ SetMgr(m)
    /\ completed' = completed \o NewCompletes(m)
    /\ UNCHANGED <<roots, limits>>

\* the worker thread executes the request at the head of its channel
DbWorker ==
    /\ db_tx # << >>
    /\ \E res \in StoreResults(Head(db_tx)) :
          /\ db_rx' = db_rx \o db_responses(Head(db_tx), res)
          /\ store' = IF Head(db_tx).kind = "Insert" /\ res.ok
                      THEN store \cup {Head(db_tx).cid}
                      ELSE store
    /\ db_tx' = Tail(db_tx)
    /\ db_done' = Append(db_done, Head(db_tx))
    /\ lastOp' = Op("worker", NoneId, TRUE, "none")
    /\ UNCHANGED <<id_counter, queries, events, panicked, issued, roots, completed, cancelled,
                   block_not_found, limits, requests, pc, surfaced, inbound,
                   outstanding, failures, codec>>

\* poll, first loop: DbResponse::MissingBlocks(id, Ok(missing))
PollDbMissingBlocksOk ==
    LET m == inject_response(Mgr, Head(db_rx).id, ResponseMissingBlocks(Head(db_rx).missing))
    IN /\ ~panicked /\ pc = "db"
       /\ db_rx # << >> /\ Head(db_rx).kind = "MissingBlocks" /\ Head(db_rx).ok
       /\ m.id_counter <= limits.ids
       /\ db_rx' = Tail(db_rx)
       /\ NodeSetMgr(m)
       /\ lastOp' = Op("db", NoneId, TRUE, "none")
       /\ UNCHANGED <<issued, cancelled, block_not_found, requests, db_tx, store, pc,
                      db_done, surfaced, inbound, outstanding, failures, codec>>

\* poll, first loop: DbResponse::MissingBlocks(id, Err(err)) cancels and returns
PollDbMissingBlocksErr ==
    LET r == cancel(Mgr, Head(db_rx).id)
    IN /\ ~panicked /\ pc = "db"
       /\ db_rx # << >> /\ Head(db_rx).kind = "MissingBlocks" /\ ~Head(db_rx).ok
       /\ db_rx' = Tail(db_rx)
       /\ NodeSetMgr(r.mgr)
       /\ cancelled' = IF r.ret THEN cancelled \cup {Head(db_rx).id} ELSE cancelled
       /\ surfaced' = Append(surfaced, BitswapEvent("Complete", Head(db_rx).id, FALSE))
       /\ lastOp' = Op("db", NoneId, TRUE, "none")
       /\ UNCHANGED <<issued, block_not_found, requests, db_tx, store, pc, db_done,
                      inbound, outstanding, failures, codec>>

\* poll: the first loop finds no response of the worker
PollDbDone ==
    /\ ~panicked /\ pc = "db"
    /\ db_rx = << >>
    /\ pc' = "next"
    /\ lastOp' = Op("db", NoneId, TRUE, "none")
    /\ UNCHANGED <<id_counter, queries, events, panicked, issued, roots, completed, cancelled,
                   block_not_found, limits, requests, db_tx, db_rx, store, db_done,
                   surfaced, inbound, outstanding, failures, codec>>

\* poll, second loop: one event of query_manager.next() is dispatched or returned
PollNext ==
    LET e == Head(events)
    IN /\ ~panicked /\ pc = "next"
       /\ events # << >>
       /\ events' = Tail(events)
       /\ issued' = IF e.type = "Request"
                    THEN MapInsert(issued, e.id, [req |-> e.req, root |-> queries[e.id].root])
                    ELSE issued
       /\ requests' = IF e.type = "Request" /\ e.req.kind \in {"Have", "Block"}
                      THEN MapInsert(requests, BitswapIdBitswap(e.id), e.id)
                      ELSE requests
       /\ outstanding' = IF e.type = "Request" /\ e.req.kind \in {"Have", "Block"}
                         THEN outstanding \cup {BitswapIdBitswap(e.id)}
                         ELSE outstanding
       /\ db_tx' = IF e.type = "Request" /\ e.req.kind = "MissingBlocks"
                   THEN db_send(db_tx, DbRequestMissingBlocks(e.id, e.req.cid))
                   ELSE db_tx
       /\ block_not_found' = IF e.type = "Complete" /\ ~e.res.ok
                             THEN block_not_found + 1
                             ELSE block_not_found
       /\ surfaced' = IF e.type = "Request" THEN surfaced
                      ELSE Append(surfaced, BitswapEvent(e.type, e.id, e.res.ok))
       /\ pc' = IF e.type = "Request" THEN pc ELSE "db"
       /\ lastOp' = Op("next", NoneId, TRUE, "none")
       /\ UNCHANGED <<id_counter, queries, panicked, roots, completed, cancelled, limits,
                      db_rx, store, db_done, inbound, failures, codec>>

\* poll: query_manager.next() returns None
PollNextDone ==
    /\ ~panicked /\ pc = "next"
    /\ events = << >>
    /\ pc' = "inner"
    /\ lastOp' = Op("next", NoneId, TRUE, "none")
    /\ UNCHANGED <<id_counter, queries, events, panicked, issued, roots, completed, cancelled,
                   block_not_found, limits, requests, db_tx, db_rx, store, db_done,
                   surfaced, inbound, outstanding, failures, codec>>

\* the responses a peer can send to a request
PeerResponses ==
    {BitswapResponseHave(b) : b \in BOOLEAN} \cup {BitswapResponseBlock(d) : d \in Cids}

\* Bitswap::inject_response(id, peer, response), for a BitswapId in the requests map
BitswapInjectResponse(rid, peer, response) ==
    LET id == requests[rid]
        info == query_info(Mgr, id)
        valid == \E q \in info : validate(q.cid, response.data)
        m == CASE response.kind = "Have" ->
                     inject_response(Mgr, id, ResponseHave(peer, response.have))
               [] response.kind = "Block" /\ info # {} ->
                     inject_response(Mgr, id, ResponseBlock(peer, valid))
               [] OTHER -> Mgr
    IN /\ ~panicked
       /\ rid \in DOMAIN requests
       /\ m.id_counter <= limits.ids
       /\ requests' = MapRemove(requests, rid)
       /\ outstanding' = outstanding \ {rid}
       /\ db_tx' = IF response.kind = "Block" /\ valid
                   THEN db_send(db_tx, DbRequestInsert(queries[id].cid, response.data))
                   ELSE db_tx
       /\ NodeSetMgr(m)
       /\ lastOp' = Op("response", id, valid, response.kind)
       /\ UNCHANGED <<issued, cancelled, block_not_found, db_rx, store, pc, db_done, surfaced,
                      inbound, failures, codec>>

\* poll, third loop: inner.poll returns the response of the peer the request was
\* sent to
PollInnerResponse(rid, response) ==
    /\ pc = "inner"
    /\ rid \in DOMAIN requests
    /\ BitswapInjectResponse(rid, issued[requests[rid]].req.peer, response)

\* poll, third loop: inner.poll returns Pending; poll loops again or returns
PollInnerPending ==
    /\ ~panicked /\ pc = "inner"
    /\ pc' = "db"
    /\ lastOp' = Op("inner", NoneId, TRUE, "none")
    /\ UNCHANGED <<id_counter, queries, events, panicked, issued, roots, completed, cancelled,
                   block_not_found, limits, requests, db_tx, db_rx, store, db_done,
                   surfaced, inbound, outstanding, failures, codec>>

\* the transport is polled in this step
PollInner ==
    \/ \E rid \in outstanding : \E response \in PeerResponses :
           PollInnerResponse(rid, response)
    \/ PollInnerPending

\* the host calls Bitswap::get, sync and cancel between two calls of poll
NodeGet(cid, providers) == pc = "db" /\ Get(cid, providers)
NodeSync(cid, providers, missing) == pc = "db" /\ Sync(cid, providers, missing)
NodeCancel(id) == pc = "db" /\ Cancel(id)

\* the node running the queries of its host; the requests of peers, which touch
\* only the channels of the worker, are in SpecWorker
NextNode ==
    \/ \E cid \in Cids, providers \in PeerLists : NodeGet(cid, providers)
    \/ \E cid \in Cids, providers \in PeerLists, missing \in CidLists :
           NodeSync(cid, providers, missing)
    \/ \E id \in CancelIds : NodeCancel(id)
    \/ DbWorker
    \/ PollDbMissingBlocksOk
    \/ PollDbMissingBlocksErr
    \/ PollDbDone
    \/ PollNext
    \/ PollNextDone
    \/ PollInner

InitNode == InitMgr /\ limits = Limits(MaxIdNode, MaxRootsNode, TRUE)

SpecNode == InitNode /\ [][NextNode]_vars

\* the requests the orchestrator sends to the worker for its own queries
DbRequests ==
    {DbRequestInsert(cid, cid) : cid \in Cids}
    \cup {DbRequestMissingBlocks(id, cid) : id \in {0, 1}, cid \in Cids}

\* Bitswap::inject_request: the request of a peer goes to the worker
InjectRequest(channel, ty, cid) ==
    /\ inbound < MaxDbRequests
    /\ inbound' = inbound + 1
    /\ db_tx' = db_send(db_tx, DbRequestBitswap(channel, ty, cid))
    /\ UNCHANGED <<id_counter, queries, events, panicked, issued, roots, completed, cancelled,
                   block_not_found, lastOp, limits, requests, db_rx, store, pc, db_done,
                   surfaced, outstanding, failures, codec>>

\* the orchestrator sends an Insert or a MissingBlocks request to the worker
DbSend(request) ==
    /\ inbound < MaxDbRequests
    /\ inbound' = inbound + 1
    /\ db_tx' = db_send(db_tx, request)
    /\ UNCHANGED <<id_counter, queries, events, panicked, issued, roots, completed, cancelled,
                   block_not_found, lastOp, limits, requests, db_rx, store, pc, db_done,
                   surfaced, outstanding, failures, codec>>

\* poll, first loop: the orchestrator takes the next response of the worker
DbRecv ==
    /\ db_rx # << >>
    /\ db_rx' = Tail(db_rx)
    /\ UNCHANGED <<id_counter, queries, events, panicked, issued, roots, completed, cancelled,
                   block_not_found, lastOp, limits, requests, db_tx, store, pc, db_done,
                   surfaced, inbound, outstanding, failures, codec>>

\* the worker thread between its two channels
NextWorker ==
    \/ \E channel \in Channels, ty \in {"Have", "Block"}, cid \in Cids :
           InjectRequest(channel, ty, cid)
    \/ \E request \in DbRequests : DbSend(request)
    \/ DbWorker
    \/ DbRecv

InitWorker == InitMgr /\ limits = Limits(MaxIdNode, MaxRootsNode, FALSE)

SpecWorker == InitWorker /\ [][NextWorker]_vars

\* enum OutboundFailure, enum InboundFailure
OutboundFailures == {"DialFailure", "Timeout", "ConnectionClosed", "UnsupportedProtocols"}
InboundFailures == {"Timeout", "ConnectionClosed", "UnsupportedProtocols", "ResponseOmission"}

\* a handler of OutboundFailure that fails the sub-query as if the peer had
\* answered Have(false)
PollInnerOutboundFailureFailsQuery(rid, error) ==
    /\ pc = "inner"
    /\ BitswapInjectResponse(rid, issued[requests[rid]].req.peer, BitswapResponseHave(FALSE))

\* poll, third loop: inner.poll returns OutboundFailure for a request; the build
\* with the feature "compat" retries a request the peer's protocol does not
\* support over the legacy protocol, keyed by its cid, and returns NotifyHandler
PollInnerOutboundFailure(rid, error) ==
    LET retry == limits.compat /\ error = "UnsupportedProtocols" /\ rid \in DOMAIN requests
        info == IF retry THEN query_info(Mgr, requests[rid]) ELSE {}
    IN /\ ~panicked /\ pc = "inner"
       /\ failures.outbound + failures.inbound < limits.failures
       /\ failures' = [failures EXCEPT !.outbound = @ + 1]
       /\ outstanding' = outstanding \ {rid}
       /\ requests' = IF ~retry THEN requests
                      ELSE IF info = {} THEN MapRemove(requests, rid)
                      ELSE MapInsert(MapRemove(requests, rid),
                                     BitswapIdCompat((CHOOSE q \in info : TRUE).cid),
                                     requests[rid])
       /\ pc' = IF info # {} THEN "db" ELSE pc
       /\ lastOp' = Op("outbound_failure", rid.rid, retry, "none")
       /\ UNCHANGED <<id_counter, queries, events, panicked, issued, roots, completed, cancelled,
                      block_not_found, limits, db_tx, db_rx, store, db_done, surfaced, inbound,
                      codec>>

\* poll, third loop: inner.poll returns InboundFailure for a request of a peer
PollInnerInboundFailure(error) ==
    /\ ~panicked /\ pc = "inner"
    /\ failures.outbound + failures.inbound < limits.failures
    /\ failures' = [failures EXCEPT !.inbound = @ + 1]
    /\ lastOp' = Op("inbound_failure", NoneId, FALSE, "none")
    /\ UNCHANGED <<id_counter, queries, events, panicked, issued, roots, completed, cancelled,
                   block_not_found, limits, requests, db_tx, db_rx, store, pc, db_done,
                   surfaced, inbound, outstanding, codec>>

\* Bitswap::inject_event: a peer sends CompatMessage::Response(cid, response)
InjectEventCompatResponse(cid, peer, response) ==
    /\ pc = "db"
    /\ limits.compat
    /\ BitswapInjectResponse(BitswapIdCompat(cid), peer, response)

\* the node running gets of its host over a transport that reports failures,
\* built with or without the feature "compat"
NextFailures ==
    \/ \E cid \in Cids, providers \in PeerLists : NodeGet(cid, providers)
    \/ \E id \in CancelIds : NodeCancel(id)
    \/ PollDbDone
    \/ PollNext
    \/ PollNextDone
    \/ PollInner
    \/ \E rid \in outstanding, error \in OutboundFailures : PollInnerOutboundFailure(rid, error)
    \/ \E error \in InboundFailures : PollInnerInboundFailure(error)
    \/ \E cid \in Cids, peer \in Peers, response \in PeerResponses :
           InjectEventCompatResponse(cid, peer, response)

FailureLimits(ids, nroots, nfailures, compat) ==
    [ids |-> ids, roots |-> nroots, track |-> TRUE, failures |-> nfailures, compat |-> compat]

InitFailures ==
    /\ InitMgr
    /\ \E compat \in BOOLEAN :
           limits = FailureLimits(MaxIdFailures, MaxRootsFailures, MaxFailures, compat)

SpecFailures == InitFailures /\ [][NextFailures]_vars

\* the node syncing DAGs with a store whose inserts succeed and whose
\* missing_blocks is accurate; the store may hold a part of the DAG at the start
NextDag ==
    \/ \E cid \in Cids, providers \in PeerLists : NodeSync(cid, providers, << >>)
    \/ \E id \in CancelIds : NodeCancel(id)
    \/ DbWorker
    \/ PollDbMissingBlocksOk
    \/ PollDbDone
    \/ PollNext
    \/ PollNextDone
    \/ PollInner

DagLimits(ids, nroots, links) ==
    [ids |-> ids, roots |-> nroots, track |-> FALSE, links |-> links]

InitDag ==
    /\ InitBitswap
    /\ store \in SUBSET Cids
    /\ \E links \in Dags : limits = DagLimits(MaxIdDag, MaxRootsDag, links)

SpecDag == InitDag /\ [][NextDag]_vars

----------------------------------------------------------------------------
(* The wire codec (BitswapCodec): the bound on the length of a frame *)

\* a check that also rejects a frame of exactly the maximal length
frame_fits_strict(len, max) == len < max + 1

\* `if msg_len > max + 1 { return Err(invalid_data(MessageTooLarge(msg_len))) }`
frame_fits(len, max) == ~(len > max + 1)

\* the codec past its length check (Ok) or returning MessageTooLarge(len)
CodecResult(op, len, max) == [op |-> op, len |-> len, ok |-> frame_fits(len, max)]

read_request(msg_len) == CodecResult("read_request", msg_len, MAX_CID_SIZE)
read_response(msg_len) == CodecResult("read_response", msg_len, MAX_BLOCK_SIZE)
write_request(len) == CodecResult("write_request", len, MAX_CID_SIZE)
write_response(len) == CodecResult("write_response", len, MAX_BLOCK_SIZE)

\* BitswapCodec::read_request reads a frame whose length prefix is msg_len
ReadRequest(msg_len) ==
    /\ codec' = read_request(msg_len)
    /\ UNCHANGED <<id_counter, queries, events, panicked, issued, roots, completed, cancelled,
                   block_not_found, lastOp, limits, requests, db_tx, db_rx, store, pc, db_done,
                   surfaced, inbound, outstanding, failures>>

\* BitswapCodec::read_response reads a frame whose length prefix is msg_len
ReadResponse(msg_len) ==
    /\ codec' = read_response(msg_len)
    /\ UNCHANGED <<id_counter, queries, events, panicked, issued, roots, completed, cancelled,
                   block_not_found, lastOp, limits, requests, db_tx, db_rx, store, pc, db_done,
                   surfaced, inbound, outstanding, failures>>

\* BitswapCodec::write_request writes a request encoded in len bytes
WriteRequest(len) ==
    /\ codec' = write_request(len)
    /\ UNCHANGED <<id_counter, queries, events, panicked, issued, roots, completed, cancelled,
                   block_not_found, lastOp, limits, requests, db_tx, db_rx, store, pc, db_done,
                   surfaced, inbound, outstanding, failures>>

\* BitswapCodec::write_response writes a response encoded in len bytes
WriteResponse(len) ==
    /\ codec' = write_response(len)
    /\ UNCHANGED <<id_counter, queries, events, panicked, issued, roots, completed, cancelled,
                   block_not_found, lastOp, limits, requests, db_tx, db_rx, store, pc, db_done,
                   surfaced, inbound, outstanding, failures>>

NextCodec ==
    \/ \E msg_len \in 0 .. MaxFrameLen : ReadRequest(msg_len)
    \/ \E msg_len \in 0 .. MaxFrameLen : ReadResponse(msg_len)
    \/ \E len \in 0 .. MaxFrameLen : WriteRequest(len)
    \/ \E len \in 0 .. MaxFrameLen : WriteResponse(len)

InitCodec == InitMgr /\ limits = Limits(0, 0, FALSE)

SpecCodec == InitCodec /\ [][NextCodec]_vars

----------------------------------------------------------------------------
(* Vocabulary of the properties *)

QueryIds == 0 .. (id_counter - 1)

Live(id) == id \in DOMAIN queries
IsLeaf(id) == Live(id) /\ queries[id].state.kind = "None"
IsGet(id) == Live(id) /\ queries[id].state.kind = "Get"
IsSync(id) == Live(id) /\ queries[id].state.kind = "Sync"
IsLiveRoot(id) == Live(id) /\ queries[id].parent = NoneId /\ ~IsLeaf(id)

CompletedIds == {completed[i].id : i \in 1 .. Len(completed)}

\* the events an operation that took the manager to m appended to the queue
Appended(m) == SubSeq(m.events, Len(events) + 1, Len(m.events))

IsPrefix(s, t) == Len(s) <= Len(t) /\ SubSeq(t, 1, Len(s)) = s

----------------------------------------------------------------------------
(* C1 *)

\* C1: at most one Complete event is ever enqueued per QueryId, and every Complete
\* event carries the id of a root query (one started by the public get or sync,
\* parent = None), never the id of a child get of a sync or of a leaf sub-query.
C1_CompleteOncePerRoot ==
    \A i \in 1 .. Len(completed) :
        /\ completed[i].id \in roots
        /\ \A j \in 1 .. Len(completed) : completed[j].id = completed[i].id => j = i

\* a sync has completed after a child get of it had completed (the store probe that
\* follows the child was dispatched)
C1_Witness ==
    /\ \E i \in 1 .. Len(completed) : \E id \in DOMAIN issued :
          /\ issued[id].req.kind = "MissingBlocks"
          /\ issued[id].root = completed[i].id
          /\ id > completed[i].id + 1

----------------------------------------------------------------------------
(* C2 *)

\* the sub-requests of root's tree that are not answered yet (queued or dispatched)
Unanswered(root) == {id \in QueryIds : IsLeaf(id) /\ queries[id].root = root}

\* C2: a root query that is never cancelled and whose Request events are all
\* answered gets its Complete event: no un-cancelled root is left without a
\* Complete event once all of its sub-requests have been answered.
C2_AnsweredRootCompletes ==
    \A r \in roots \ cancelled : Unanswered(r) = {} => r \in CompletedIds

----------------------------------------------------------------------------
(* C3 *)

\* C3: after cancel(root) returned true, no live query record has root as its
\* root: the composite, every descendant get and every descendant leaf sub-query
\* are removed from the live-queries map within that same cancel call.
C3_CancelPurgesTree ==
    \A r \in cancelled \cap roots : \A id \in DOMAIN queries : queries[id].root # r

----------------------------------------------------------------------------
(* C4 *)

\* C4: after cancel(root) returned true, no Request event whose sub-query descends
\* from root is ever returned by next(), whatever responses are injected
\* afterwards.
C4_NoRequestAfterCancel ==
    [][(NextEvent /\ Head(events).type = "Request")
         => /\ Live(Head(events).id)
            /\ queries[Head(events).id].root \notin cancelled]_vars

\* a root with a single sub-request was cancelled after that sub-request had been
\* dispatched, and the answer was injected after the cancel (an answer before the
\* cancel would have completed the root or started further sub-queries)
C4_Witness ==
    \E r \in cancelled \cap roots :
        /\ id_counter = r + 2
        /\ (r + 1) \in DOMAIN issued
        /\ issued[r + 1].root = r
        /\ ~Live(r + 1)
        /\ r \notin CompletedIds

----------------------------------------------------------------------------
(* C5 *)

\* the queued events cancel(root) is to drop: the Requests of root's tree and the
\* Progress events of root
C5_Dropped(root, e) ==
    \/ e.type = "Request" /\ Live(e.id) /\ queries[e.id].root = root
    \/ e.type = "Progress" /\ e.id = root

\* C5: cancel(root) on a live root removes from the event queue exactly the queued
\* Request events of root's tree and the queued Progress events for root; every
\* queued Complete event and every event of another root stays, in its original
\* relative order.
C5_CancelDropsExactlyTree ==
    \A root \in QueryIds :
        IsLiveRoot(root) =>
            cancel(Mgr, root).mgr.events
                = SelectSeq(events, LAMBDA e : ~C5_Dropped(root, e))

\* a root was cancelled while its requests were queued: its sub-queries were never
\* dispatched and are queued no more, while events of another root are still queued
C5_Witness ==
    \E r \in cancelled \cap roots :
        /\ \E id \in DOMAIN queries :
              /\ queries[id].root = r
              /\ id \notin DOMAIN issued
              /\ \A i \in 1 .. Len(events) : events[i].id # id
        /\ \E i \in 1 .. Len(events) : events[i].id > r + 1

----------------------------------------------------------------------------
(* C6 *)

\* C6: cancel(id) returns false when id is not in the live-queries map or names a
\* stateless leaf sub-query, and then the live-queries map and the event queue are
\* exactly what they were before the call; so a second cancel of a cancelled or
\* completed root returns false and changes nothing.
C6_CancelRefusedChangesNothing ==
    \A id \in 0 .. id_counter :
        (~Live(id) \/ IsLeaf(id)) => cancel(Mgr, id) = [mgr |-> Mgr, ret |-> FALSE]

\* the second cancel of a cancelled root has returned false, with events queued
C6_Witness ==
    /\ lastOp.op = "cancel"
    /\ ~lastOp.ret
    /\ lastOp.id \in cancelled
    /\ events # << >>
    /\ \E id \in DOMAIN queries : IsLeaf(id)

----------------------------------------------------------------------------
(* C7 *)

\* C7: cancel(id) returns true and removes a record only when id is a live root
\* query (parent = None); with the id of a child get of a sync it cancels nothing
\* and returns false, so a live sync never references a removed child.
C7_OnlyRootsCancelled ==
    \A id \in QueryIds :
        (Live(id) /\ queries[id].parent # NoneId)
            => cancel(Mgr, id) = [mgr |-> Mgr, ret |-> FALSE]

----------------------------------------------------------------------------
(* C8 *)

\* the Request events get(_, cid, providers) is to enqueue, the new get having id
C8_Requests(id, cid, providers) ==
    [i \in 1 .. Len(providers) |->
        QueryEventRequest(id + i, IF i = 1 THEN RequestBlock(providers[1], cid)
                                           ELSE RequestHave(providers[i], cid))]

\* C8: get(parent, cid, [p1, ..., pn]), n >= 1, enqueues exactly n Request events in
\* provider order, Block(p1, cid) first and then Have(pi, cid) for i = 2..n; the
\* new get's state has block = the id of the first sub-query, have = the n-1
\* probe ids, and an empty providers list.
C8_GetRequestsInProviderOrder ==
    \A parent \in {NoneId} \cup {s \in QueryIds : IsSync(s)} :
    \A cid \in Cids : \A providers \in PeerLists \ {<< >>} :
        LET id == id_counter
            n == Len(providers)
            m == get(Mgr, parent, cid, providers)
        IN /\ IsPrefix(events, m.events)
           /\ Appended(m) = C8_Requests(id, cid, providers)
           /\ id \in DOMAIN m.queries
           /\ m.queries[id].state
                = [GetStateDefault EXCEPT !.block = id + 1, !.have = (id + 2) .. (id + n)]

\* a get started with three providers, its three requests still queued
C8_Witness ==
    \E id \in QueryIds :
        /\ IsGet(id)
        /\ queries[id].state.block = id + 1
        /\ queries[id].state.have = {id + 2, id + 3}
        /\ \E i \in 1 .. Len(events) :
              /\ i + 2 <= Len(events)
              /\ events[i].id = id + 1 /\ events[i].req.kind = "Block"
              /\ events[i + 1].id = id + 2 /\ events[i + 1].req.kind = "Have"
              /\ events[i + 2].id = id + 3 /\ events[i + 2].req.kind = "Have"

----------------------------------------------------------------------------
(* C9 *)

----------------------------------------------------------------------------
(* C10 *)

\* C10: when Block(peer, true) is injected for a sub-query of a live get, the get
\* completes with Ok in that same step whatever have probes are outstanding: a
\* root get enqueues Complete(id, Ok) and leaves the live map; and a response
\* injected later for one of its abandoned probes changes nothing but the probe's
\* own record and emits no event.
C10_BlockCompletesGet ==
    \A id \in QueryIds : \A peer \in Peers :
        /\ (IsLeaf(id) /\ IsGet(queries[id].parent)) =>
              LET g == queries[id].parent
                  m == inject_response(Mgr, id, ResponseBlock(peer, TRUE))
              IN /\ g \notin DOMAIN m.queries
                 /\ queries[g].parent = NoneId =>
                       m = [Mgr EXCEPT !.queries = MapRemove(MapRemove(@, id), g),
                                       !.events = Append(@, QueryEventComplete(g, Ok))]
        /\ (IsLeaf(id) /\ queries[id].label \in {"have", "block"}
                       /\ ~Live(queries[id].parent)) =>
              \A res \in Responses(RequestHave(peer, queries[id].cid)) :
                  inject_response(Mgr, id, res)
                      = [Mgr EXCEPT !.queries = MapRemove(@, id)]

\* a root get has completed with Ok while a have probe of it is still in the map
C10_Witness ==
    \E i \in 1 .. Len(completed) :
        /\ completed[i].res.ok
        /\ \E id \in QueryIds :
              /\ IsLeaf(id)
              /\ queries[id].label = "have"
              /\ queries[id].parent = completed[i].id

----------------------------------------------------------------------------
(* C11 *)

\* the Complete events with an error in a sequence of events
ErrCompletes(evs) == SelectSeq(evs, LAMBDA e : e.type = "Complete" /\ ~e.res.ok)

\* the state of a get once the answer to its sub-query id is taken off its have set
\* and its block slot: nothing is left to wait for and no provider to fall back on
C11_Exhausted(state, id) ==
    /\ state.have \ {id} = {}
    /\ state.block \in {id, NoneId}
    /\ state.providers = << >>

\* C11: a get completes with Err(cid) exactly at the step where, after a negative
\* response (Have(peer, false) or Block(peer, false)), its have set, its block slot
\* and its providers list are all empty, and this termination check never yields
\* Ok; a root get then enqueues exactly one Complete(id, Err(cid)), and the
\* orchestrator counts one bitswap_block_not_found_total for each such event it
\* takes from the queue.
C11_ErrWhenExhausted ==
    /\ \A id \in QueryIds : \A peer \in Peers :
          (IsLeaf(id) /\ IsGet(queries[id].parent)) =>
              LET g == queries[id].parent
                  cid == queries[g].cid
              IN /\ \A res \in {ResponseHave(peer, FALSE), ResponseBlock(peer, FALSE)} :
                        LET m == inject_response(Mgr, id, res)
                        IN /\ IsPrefix(events, m.events)
                           /\ \A i \in 1 .. Len(Appended(m)) :
                                 Appended(m)[i].type = "Complete" => ~Appended(m)[i].res.ok
                           /\ (g \notin DOMAIN m.queries) <=> C11_Exhausted(queries[g].state, id)
                           /\ (queries[g].parent = NoneId /\ C11_Exhausted(queries[g].state, id))
                                 => Appended(m) = <<QueryEventComplete(g, Err(cid))>>
                           /\ (queries[g].parent = NoneId /\ ~C11_Exhausted(queries[g].state, id))
                                 => \A i \in 1 .. Len(Appended(m)) : Appended(m)[i].type = "Request"
                 /\ LET m == inject_response(Mgr, id, ResponseHave(peer, TRUE))
                    IN /\ g \in DOMAIN m.queries
                       /\ \A i \in 1 .. Len(Appended(m)) : Appended(m)[i].type = "Request"
    /\ block_not_found = Len(ErrCompletes(completed)) - Len(ErrCompletes(events))

\* a root get with two providers, both dispatched, has completed with its cid as the
\* error, and the orchestrator has counted it
C11_Witness ==
    \E i \in 1 .. Len(completed) :
        LET r == completed[i].id
        IN /\ r \in roots
           /\ ~completed[i].res.ok
           /\ (r + 1) \in DOMAIN issued /\ issued[r + 1].req.kind = "Block"
           /\ (r + 2) \in DOMAIN issued /\ issued[r + 2].req.kind = "Have"
           /\ issued[r + 2].root = r
           /\ completed[i].res.cid = issued[r + 1].req.cid
           /\ block_not_found = 1

----------------------------------------------------------------------------
(* C12 *)

\* C12: when a child get of a live sync completes with Err(cid), the sync completes
\* in the same step with that cid as its error: Complete(root, Err(cid)) is the one
\* event enqueued and the sync leaves the live map, whatever other child gets or
\* store probes of it are outstanding.
C12_ChildErrFailsSync ==
    \A id \in QueryIds : \A peer \in Peers :
        (/\ ~panicked
         /\ IsLeaf(id)
         /\ IsGet(queries[id].parent)
         /\ IsSync(queries[queries[id].parent].parent)
         /\ C11_Exhausted(queries[queries[id].parent].state, id)) =>
            LET g == queries[id].parent
                root == queries[g].parent
            IN \A res \in {ResponseHave(peer, FALSE), ResponseBlock(peer, FALSE)} :
                  LET m == inject_response(Mgr, id, res)
                  IN /\ m.events = Append(events, QueryEventComplete(root, Err(queries[g].cid)))
                     /\ root \notin DOMAIN m.queries
                     /\ g \notin DOMAIN m.queries
                     /\ \A e \in {completed[i] : i \in 1 .. Len(completed)} : e.id # root

\* a sync has completed with the cid of a failed child get as its error while another
\* child get of it was outstanding
C12_Witness ==
    \E i \in 1 .. Len(completed) :
        /\ ~completed[i].res.ok
        /\ \E g \in QueryIds :
              /\ IsGet(g)
              /\ queries[g].parent = completed[i].id
              /\ queries[g].cid # completed[i].res.cid

----------------------------------------------------------------------------
(* C13 *)

\* the responses the orchestrator can inject for the live sub-query id
C13_Responses(id) ==
    IF queries[id].label = "missing-blocks"
    THEN Responses(RequestMissingBlocks(queries[id].cid))
    ELSE UNION {Responses(RequestHave(peer, queries[id].cid)) : peer \in Peers}

\* C13: a sync emits Complete(root, Ok) only at a step after which its missing set
\* and its children set are both empty, and whenever both are empty after a
\* MissingBlocks response it completes with Ok in that step; no live sync has both
\* sets empty between two public operations.
C13_SyncOkIffNothingLeft ==
    ~panicked =>
    /\ \A root \in QueryIds :
          IsSync(root) => queries[root].state.missing \cup queries[root].state.children # {}
    /\ \A id \in QueryIds : IsLeaf(id) =>
          \A res \in C13_Responses(id) :
              LET m == inject_response(Mgr, id, res)
                  root == queries[id].root
                  nothingLeft == /\ res.kind = "MissingBlocks"
                                 /\ queries[id].parent = root
                                 /\ res.missing = << >>
                                 /\ queries[root].state.missing = {}
                                 /\ queries[root].state.children \ {id} = {}
              IN (~m.panicked /\ IsSync(root)) =>
                    /\ nothingLeft => /\ m.events = Append(events, QueryEventComplete(root, Ok))
                                      /\ root \notin DOMAIN m.queries
                    /\ ~nothingLeft =>
                          /\ \A i \in 1 .. Len(Appended(m)) :
                                ~(Appended(m)[i].type = "Complete" /\ Appended(m)[i].res.ok)
                          /\ root \in DOMAIN m.queries =>
                                LET S == m.queries[root].state
                                IN S.missing \cup S.children # {}

\* a sync has completed with Ok after a child get of it had received its block and
\* the store probe that followed had found nothing missing
C13_Witness ==
    \E i \in 1 .. Len(completed) :
        LET r == completed[i].id
        IN /\ completed[i].res.ok
           /\ (r + 2) \in DOMAIN issued /\ issued[r + 2].req.kind = "Block"
           /\ issued[r + 2].root = r
           /\ \E id \in DOMAIN issued :
                 issued[id].req.kind = "MissingBlocks" /\ issued[id].root = r

----------------------------------------------------------------------------
(* C14 *)

\* C14: a MissingBlocks(list) response for a live sync that does not complete
\* enqueues Progress(root, |S.missing|) if and only if list is non-empty; an empty
\* list never enqueues a Progress event, even when other child gets of the sync are
\* outstanding.
C14_ProgressIffListNonEmpty ==
    \A id \in QueryIds : \A list \in CidLists :
        (~panicked /\ IsLeaf(id) /\ IsSync(queries[id].parent)) =>
            LET root == queries[id].parent
                m == inject_response(Mgr, id, ResponseMissingBlocks(list))
            IN (~m.panicked /\ root \in DOMAIN m.queries) =>
                  LET n == Cardinality(m.queries[root].state.missing)
                      progress == {i \in 1 .. Len(Appended(m)) : Appended(m)[i].type = "Progress"}
                  IN /\ \A i \in progress : Appended(m)[i] = QueryEventProgress(root, n)
                     /\ (progress # {}) <=> (list # << >>)

----------------------------------------------------------------------------
(* C15 *)

\* the live block sub-queries of the get g in the map qs
BlockLeaves(qs, g) ==
    {id \in DOMAIN qs : qs[id].state.kind = "None" /\ qs[id].label = "block" /\ qs[id].parent = g}

\* C15: every live get has at most one live block sub-query whose parent is that
\* get, the one of its block slot: a block sub-request is issued for a get only
\* when the slot is empty, so two block requests of one get are never in flight
\* together.
C15_OneBlockPerGet ==
    \A g \in QueryIds : IsGet(g) =>
        /\ Cardinality(BlockLeaves(queries, g)) <= 1
        /\ BlockLeaves(queries, g) \subseteq {queries[g].state.block}
        /\ \A id \in QueryIds : \A peer \in Peers :
              (~panicked /\ IsLeaf(id) /\ queries[id].parent = g) =>
                  \A res \in Responses(RequestHave(peer, queries[id].cid)) :
                      LET m == inject_response(Mgr, id, res)
                          new == BlockLeaves(m.queries, g) \ BlockLeaves(queries, g)
                      IN new # {} => /\ queries[g].state.block \in {id, NoneId}
                                     /\ BlockLeaves(m.queries, g) = new
                                     /\ Cardinality(new) = 1

\* a get waits for its second block request, the first one having been answered
\* without the block
C15_Witness ==
    \E g \in QueryIds :
        /\ IsGet(g)
        /\ queries[g].state.block > g + 1
        /\ BlockLeaves(queries, g) = {queries[g].state.block}
        /\ (g + 1) \in DOMAIN issued /\ ~Live(g + 1)

----------------------------------------------------------------------------
(* C16 *)

\* C16: between two public operations, a live get whose fallback providers list is
\* non-empty has block = Some(id), id being a live block sub-query of that get.
C16_ProvidersImplyBlock ==
    \A g \in QueryIds :
        (IsGet(g) /\ queries[g].state.providers # << >>) =>
            /\ queries[g].state.block # NoneId
            /\ queries[g].state.block \in BlockLeaves(queries, g)

\* a get holds a fallback provider while its block request is dispatched and not
\* answered
C16_Witness ==
    \E g \in QueryIds :
        /\ IsGet(g)
        /\ queries[g].state.providers # << >>
        /\ queries[g].state.block \in DOMAIN issued
        /\ IsLeaf(queries[g].state.block)

----------------------------------------------------------------------------
(* C17 *)

\* the sub-queries a live composite tracks in its state
Tracked(p) ==
    queries[p].state.have \cup ({queries[p].state.block} \ {NoneId})
        \cup queries[p].state.missing \cup queries[p].state.children

\* C17: between two public operations, every live sub-query (parent = Some(p)) has
\* its parent p in the live-queries map and is listed in p's have, block, missing or
\* children field: no orphan record stays in the map after a get completes, a sync
\* completes or fails, or a root is cancelled.
C17_NoOrphans ==
    \A id \in DOMAIN queries :
        queries[id].parent # NoneId =>
            /\ Live(queries[id].parent)
            /\ id \in Tracked(queries[id].parent)

----------------------------------------------------------------------------
(* C18 *)

\* the root and parent fields of the record q fit its place in the tree of the map qs
C18_Consistent(qs, q) ==
    CASE q.label \in {"get", "sync"} /\ q.parent = NoneId -> q.root = q.id
      [] q.label = "get" ->
            /\ q.parent = q.root
            /\ q.parent \in DOMAIN qs
            /\ qs[q.parent].state.kind = "Sync" /\ qs[q.parent].parent = NoneId
      [] q.label \in {"have", "block"} ->
            /\ q.parent \in DOMAIN qs
            /\ qs[q.parent].state.kind = "Get"
            /\ q.root = qs[q.parent].root
      [] q.label = "missing-blocks" ->
            /\ q.parent = q.root
            /\ q.parent \in DOMAIN qs
            /\ qs[q.parent].state.kind = "Sync" /\ qs[q.parent].parent = NoneId
      [] OTHER -> FALSE

\* C18: every live query's root and parent fields are those of its place in the
\* query tree: a host-initiated get or sync has parent = None and root = its own id,
\* a child get of a sync has parent = root = the sync, a have or block leaf has
\* parent = its get and root = that get's root, a missing-blocks leaf has
\* parent = root = its sync. Every step creates its records with these fields,
\* their composite being live, and leaves the fields of the other records alone.
C18_RootAndParentConsistent ==
    [][\A id \in DOMAIN queries' :
          IF id \in DOMAIN queries
          THEN /\ queries'[id].root = queries[id].root
               /\ queries'[id].parent = queries[id].parent
               /\ queries'[id].label = queries[id].label
          ELSE C18_Consistent(queries', queries'[id])]_vars

\* a block leaf below a child get of a sync: its parent is the get, its root the sync
C18_Witness ==
    \E id \in QueryIds :
        /\ IsLeaf(id)
        /\ queries[id].label = "block"
        /\ IsGet(queries[id].parent)
        /\ queries[id].root # queries[id].parent
        /\ IsSync(queries[id].root)
        /\ queries[id].id > queries[id].parent + 1

----------------------------------------------------------------------------
(* C19 *)

\* C19: every query and sub-query the manager creates receives a QueryId strictly
\* greater than every id assigned before it, and no id is used again after its
\* query completed or was cancelled: a step assigns the ids from id_counter on, each
\* to one record, and every record in the map, new or old, keeps an id below the
\* counter.
C19_IdsIncreaseNeverReused ==
    [][/\ id_counter' >= id_counter
       /\ \A id \in DOMAIN queries' :
             /\ queries'[id].id = id
             /\ id < id_counter'
             /\ id \notin DOMAIN queries => id >= id_counter
       /\ \A id \in DOMAIN queries :
             (id \in DOMAIN queries' /\ queries[id].state.kind = "None")
                 => queries'[id] = queries[id]
       /\ \A id \in roots' \ roots : id >= id_counter /\ id < id_counter'
       /\ (~panicked' /\ id_counter' > id_counter) =>
             \A i, j \in 1 .. Len(events') :
                 (/\ events'[i].type = "Request" /\ events'[j].type = "Request"
                  /\ events'[i].id = events'[j].id) => i = j]_vars

\* a get has just been started after a root with a smaller id had been cancelled or
\* had completed
C19_Witness ==
    /\ lastOp.op = "get"
    /\ lastOp.ret
    /\ Live(lastOp.id)
    /\ \E r \in (cancelled \cup CompletedIds) \cap roots : r < lastOp.id /\ ~Live(r)
    /\ \A id \in DOMAIN queries : id > lastOp.id => queries[id].parent = lastOp.id

----------------------------------------------------------------------------
(* C20 *)

\* C20: no sequence of get (with at least one provider), sync (with any providers
\* list and any missing list), cancel, next and inject_response (for an id issued
\* in a Request event, with any list of missing cids or any boolean answer) makes
\* the manager fail an assertion or unwrap None: from every state reached without
\* a panic, none of these operations panics.
C20_NoPanic ==
    ~panicked =>
        /\ \A cid \in Cids : \A providers \in PeerLists \ {<< >>} :
              ~get(Mgr, NoneId, cid, providers).panicked
        /\ \A cid \in Cids : \A providers \in PeerLists : \A missing \in CidLists :
              ~sync(Mgr, cid, providers, missing).panicked
        /\ \A id \in 0 .. id_counter : ~cancel(Mgr, id).mgr.panicked
        /\ \A id \in DOMAIN issued : \A res \in Responses(issued[id].req) :
              ~inject_response(Mgr, id, res).panicked

----------------------------------------------------------------------------
(* C23 *)

\* every response, whatever sub-query it is injected for
AllResponses ==
    {ResponseMissingBlocks(l) : l \in CidLists}
        \cup {ResponseHave(peer, b) : peer \in Peers, b \in BOOLEAN}
        \cup {ResponseBlock(peer, b) : peer \in Peers, b \in BOOLEAN}

\* C23: inject_response for an id that is not in the live-queries map, or for a live
\* leaf whose parent composite has completed or was cancelled, enqueues no event
\* and changes no composite's state (it only takes the leaf out of the map); so a
\* second successful Block answer for a completed get produces no second Complete.
C23_StaleResponseDiscarded ==
    ~panicked =>
        \A id \in 0 .. id_counter : \A res \in AllResponses :
            /\ ~Live(id) => inject_response(Mgr, id, res) = Mgr
            /\ (IsLeaf(id) /\ ~Live(queries[id].parent)) =>
                  inject_response(Mgr, id, res) = [Mgr EXCEPT !.queries = MapRemove(@, id)]

\* a have answer has just been injected for a probe of a get that a block had
\* completed with Ok before
C23_Witness ==
    /\ lastOp.op = "inject"
    /\ lastOp.kind = "Have"
    /\ lastOp.id \in DOMAIN issued
    /\ issued[lastOp.id].req.kind = "Have"
    /\ \E i \in 1 .. Len(completed) :
          completed[i].id = issued[lastOp.id].root /\ completed[i].res.ok

----------------------------------------------------------------------------
(* C24 *)

\* the state of a get once the answer res to its sub-query id is taken in: the
\* sub-query leaves the have set and the block slot, a peer that has the block
\* joins the providers
C24_Answered(state, id, res) ==
    LET s1 == [state EXCEPT !.have = @ \ {id}]
        s2 == IF s1.block = id THEN [s1 EXCEPT !.block = NoneId] ELSE s1
    IN IF res.ok THEN [s2 EXCEPT !.providers = Append(@, res.peer)] ELSE s2

\* whenever the answer leaves the get g with an empty block slot and a provider,
\* one Request::Block to a peer of the providers list is enqueued and becomes
\* S.block
C24_Promotes(g, id, res) ==
    LET S == C24_Answered(queries[g].state, id, res)
        m == inject_response(Mgr, id, res)
    IN (S.block = NoneId /\ S.providers # << >>) =>
          /\ m.events = Append(events, QueryEventRequest(id_counter,
                                   RequestBlock(Last(S.providers), queries[g].cid)))
          /\ g \in DOMAIN m.queries
          /\ m.queries[g].state.block = id_counter
          /\ BlockLeaves(m.queries, g) = {id_counter}

\* the answer enqueues no event and leaves the get g open
C24_Quiet(g, id, res) ==
    LET m == inject_response(Mgr, id, res)
    IN m.events = events /\ g \in DOMAIN m.queries /\ m.id_counter = id_counter

----------------------------------------------------------------------------
(* C25 *)

\* C25: when a get promotes a provider while several confirmed providers wait in
\* its providers list, it takes the one confirmed most recently (the last peer
\* pushed is the next block target), and the other providers keep their order.
C25_PromotionIsLifo ==
    \A id \in QueryIds : \A peer \in Peers :
        (~panicked /\ IsLeaf(id) /\ IsGet(queries[id].parent)) =>
            LET g == queries[id].parent
            IN \A res \in {ResponseHave(peer, TRUE), ResponseHave(peer, FALSE),
                           ResponseBlock(peer, FALSE)} :
                  LET S == C24_Answered(queries[g].state, id, res)
                      m == inject_response(Mgr, id, res)
                  IN (S.block = NoneId /\ Len(S.providers) >= 2) =>
                        /\ Last(m.events) = QueryEventRequest(id_counter,
                                                RequestBlock(S.providers[Len(S.providers)],
                                                             queries[g].cid))
                        /\ m.queries[g].state.providers
                             = SubSeq(S.providers, 1, Len(S.providers) - 1)

\* a get has promoted the later of two confirmed providers: the earlier one waits
\* while the block request to the later one is queued
C25_Witness ==
    \E g \in QueryIds : \E i \in 1 .. Len(events) :
        /\ IsGet(g)
        /\ queries[g].state.block = events[i].id
        /\ events[i].id = g + 4
        /\ events[i].req.kind = "Block"
        /\ Len(queries[g].state.providers) = 1
        /\ queries[g].state.providers[1] # events[i].req.peer

----------------------------------------------------------------------------
(* C26 *)

\* C26: when a child get of a live sync completes with Ok, its id leaves S.missing
\* and exactly one Request::MissingBlocks for that get's own cid is enqueued in the
\* same step, the new probe being tracked in S.children; the sync does not complete
\* in that step.
C26_ChildOkProbesStore ==
    \A id \in QueryIds : \A peer \in Peers :
        (/\ ~panicked
         /\ IsLeaf(id)
         /\ IsGet(queries[id].parent)
         /\ IsSync(queries[queries[id].parent].parent)) =>
            LET g == queries[id].parent
                root == queries[g].parent
                S == queries[root].state
                probe == id_counter
                m == inject_response(Mgr, id, ResponseBlock(peer, TRUE))
            IN /\ m.events = Append(events, QueryEventRequest(probe,
                                       RequestMissingBlocks(queries[g].cid)))
               /\ m.id_counter = id_counter + 1
               /\ g \notin DOMAIN m.queries
               /\ root \in DOMAIN m.queries
               /\ m.queries[root].state
                    = [S EXCEPT !.missing = @ \ {g}, !.children = @ \cup {probe}]
               /\ m.queries[probe]
                    = Query(probe, root, root, queries[g].cid, "missing-blocks", StateNone)

\* a live sync tracks the store probe that followed the block of its child get
C26_Witness ==
    \E root \in QueryIds : \E probe \in QueryIds :
        /\ IsSync(root)
        /\ probe \in queries[root].state.children
        /\ IsLeaf(probe)
        /\ probe > root + 2
        /\ (root + 1) \notin queries[root].state.missing
        /\ ~Live(root + 1)
        /\ (root + 2) \in DOMAIN issued /\ issued[root + 2].req.kind = "Block"
        /\ queries[probe].cid = issued[root + 2].req.cid

----------------------------------------------------------------------------
(* C27 *)

\* the roots that have failed: a Complete event with an error was enqueued for them
FailedRoots == {completed[i].id : i \in {j \in 1 .. Len(completed) : ~completed[j].res.ok}}

\* C27: when a sync fails because a child get returned Err(cid), its remaining
\* missing gets and children probes are discarded: once Complete(root, Err(cid)) is
\* enqueued, none of those sub-queries nor their have/block leaves is in the live
\* map, and no later response makes them enqueue a further Request for that root.
C27_FailedSyncDiscardsTree ==
    ~panicked =>
        \A root \in FailedRoots :
            /\ \A id \in DOMAIN queries : queries[id].root # root
            /\ \A i \in 1 .. Len(events) :
                  (events[i].type = "Request" /\ Live(events[i].id))
                      => queries[events[i].id].root # root

\* C21: when the worker reports MissingBlocks(id, Err(e)) for a live probe of a
\* live sync, the orchestrator cancels the query the probe belongs to: after the
\* step no record of that sync's tree is live, and the one event returned to the
\* host is Complete(root, Err(e)) with the id of that sync.
C21_StoreErrorCancelsSync ==
    [][(/\ PollDbMissingBlocksErr
        /\ Head(db_rx).id \in DOMAIN queries
        /\ queries[Head(db_rx).id].root \in DOMAIN queries)
          => LET root == queries[Head(db_rx).id].root
             IN /\ \A id \in DOMAIN queries' : queries'[id].root # root
                /\ surfaced' = Append(surfaced, BitswapEvent("Complete", root, FALSE))]_vars

\* C22: the orchestrator sends an Insert to the worker only for bytes that hash to
\* the cid of the sub-query the response answers; a Block response whose bytes do
\* not match that cid is injected as Block(peer, false), sends no Insert, and
\* enqueues no Complete(_, Ok).
C22_InsertOnlyValidBlocks ==
    [][\A rid \in DOMAIN requests : \A data \in Cids :
          PollInnerResponse(rid, BitswapResponseBlock(data)) =>
              LET id == requests[rid]
              IN /\ db_tx' # db_tx =>
                        /\ id \in DOMAIN queries
                        /\ data = queries[id].cid
                        /\ db_tx' = Append(db_tx, DbRequestInsert(queries[id].cid, data))
                 /\ (id \in DOMAIN queries /\ data # queries[id].cid) =>
                        /\ db_tx' = db_tx
                        /\ Mgr' = inject_response(Mgr, id,
                                                  ResponseBlock(issued[id].req.peer, FALSE))
                        /\ \A i \in (Len(completed) + 1) .. Len(completed') :
                               ~completed'[i].res.ok]_vars

\* C22 witness: the last step handled a Block response whose bytes do not hash to
\* the cid of the block sub-query it answers; the get failed, and no Insert was
\* sent or executed
C22_Witness ==
    /\ lastOp.op = "response"
    /\ lastOp.kind = "Block"
    /\ ~lastOp.ret
    /\ issued[lastOp.id].req.kind = "Block"
    /\ issued[lastOp.id].root \in FailedRoots
    /\ \A i \in 1 .. Len(db_tx \o db_done) : (db_tx \o db_done)[i].kind # "Insert"

\* C28: between any two polls of the transport the orchestrator drains
\* query_manager.next() until it returns None: no step that polls the transport
\* starts while the event queue holds a Request that an injected response
\* enqueued and that was not dispatched yet.
C28_DrainedBeforeTransportPoll ==
    [][PollInner => \A i \in 1 .. Len(events) : events[i].type # "Request"]_vars

\* the requests sent to the worker, in the order they were sent
Sent == db_done \o db_tx

\* the probe a sync starts when a child get completed, unlike its first probe
IsFollowUpProbe(id, root) == id # root + 1

\* the Inserts of cid among the first n requests sent
InsertsSent(cid, n) ==
    Cardinality({j \in 1 .. n : Sent[j].kind = "Insert" /\ Sent[j].cid = cid})

\* the follow-up probes of cid among the first n requests sent
ProbesSent(cid, n) ==
    Cardinality({j \in 1 .. n :
        /\ Sent[j].kind = "MissingBlocks" /\ Sent[j].cid = cid
        /\ IsFollowUpProbe(Sent[j].id, issued[Sent[j].id].root)})

\* the follow-up probes of cid whose Request waits in the event queue
ProbesQueued(cid) ==
    Cardinality({i \in 1 .. Len(events) :
        /\ events[i].type = "Request" /\ events[i].req.kind = "MissingBlocks"
        /\ events[i].req.cid = cid /\ Live(events[i].id)
        /\ IsFollowUpProbe(events[i].id, queries[events[i].id].root)})

\* C29: for a child get of a sync that completes on a valid Block, the Insert of
\* the block is sent to the worker before Block(peer, true) is injected, hence
\* before the follow-up MissingBlocks probe is enqueued and sent; the worker
\* executes in send order, so every follow-up probe of a cid, queued, sent or
\* executed, has its own Insert of that cid before it.
C29_InsertBeforeProbe ==
    \A cid \in Cids :
        /\ \A n \in 0 .. Len(Sent) : ProbesSent(cid, n) <= InsertsSent(cid, n)
        /\ \A n \in 0 .. Len(db_done) : ProbesSent(cid, n) <= InsertsSent(cid, n)
        /\ ProbesSent(cid, Len(Sent)) + ProbesQueued(cid) <= InsertsSent(cid, Len(Sent))

\* C29 witness: the worker executed the Insert of a block and then the follow-up
\* probe of its cid
C29_Witness ==
    \E i, j \in 1 .. Len(db_done) :
        /\ i < j
        /\ db_done[i].kind = "Insert"
        /\ db_done[j].kind = "MissingBlocks" /\ db_done[j].cid = db_done[i].cid
        /\ IsFollowUpProbe(db_done[j].id, issued[db_done[j].id].root)

\* C30: the worker handles the requests one at a time in the order they were sent
\* and publishes the responses in that order: each step takes the oldest request
\* and appends, for Bitswap(channel, request), exactly one Bitswap response with
\* the same channel (Have(b) for a Have request; Block(bytes) if the store returns
\* the block, else Have(false), for a Block request), for MissingBlocks(id, cid)
\* exactly one MissingBlocks response with the same id, and nothing for Insert.
C30_WorkerAnswersInOrder ==
    [][DbWorker =>
          LET request == Head(db_tx)
          IN /\ db_tx' = Tail(db_tx)
             /\ \E res \in StoreResults(request) :
                    LET found == res.ok /\ res.present
                    IN db_rx' = db_rx \o
                        CASE request.kind = "Bitswap" /\ request.ty = "Have" ->
                                 <<DbResponseBitswap(request.channel, BitswapResponseHave(found))>>
                          [] request.kind = "Bitswap" /\ request.ty = "Block" ->
                                 <<DbResponseBitswap(request.channel,
                                                     IF found
                                                     THEN BitswapResponseBlock(request.cid)
                                                     ELSE BitswapResponseHave(FALSE))>>
                          [] request.kind = "MissingBlocks" ->
                                 <<DbResponseMissingBlocks(request.id, res.ok, res.missing)>>
                          [] request.kind = "Insert" -> << >>]_vars

\* C30 witness: the worker executed an Insert, which it did not answer, and then
\* a Block request of a peer for that block, which it answered with the block on
\* the channel of the request
C30_Witness ==
    /\ Len(db_done) = 2
    /\ db_done[1].kind = "Insert"
    /\ db_done[2].kind = "Bitswap" /\ db_done[2].ty = "Block"
    /\ db_done[2].cid = db_done[1].cid
    /\ db_rx = <<DbResponseBitswap(db_done[2].channel, BitswapResponseBlock(db_done[2].cid))>>

\* the step is the handling of a failure the transport reports
TransportFailure ==
    \/ \E rid \in outstanding, error \in OutboundFailures :
           PollInnerOutboundFailure(rid, error)
    \/ \E error \in InboundFailures : PollInnerInboundFailure(error)

\* C31: an OutboundFailure or InboundFailure of the transport changes no state of
\* the query manager and returns no Progress or Complete to the host: the
\* sub-query it is about stays in the live map, its parent get is unchanged, and
\* only a failure counter is incremented.
C31_FailureOnlyCounted ==
    [][TransportFailure =>
          /\ UNCHANGED <<id_counter, queries, events, panicked>>
          /\ UNCHANGED <<surfaced, completed, block_not_found>>
          /\ failures'.outbound + failures'.inbound = failures.outbound + failures.inbound + 1]_vars

\* C31 witness: the last step handled the failure of the request of a live
\* sub-query of a live get, and nothing was returned to the host
C31_Witness ==
    /\ lastOp.op = "outbound_failure"
    /\ Live(lastOp.id)
    /\ IsLeaf(lastOp.id)
    /\ Live(queries[lastOp.id].parent)
    /\ failures.outbound = 1
    /\ surfaced = << >>

RequestOps == {"read_request", "write_request"}
ResponseOps == {"read_response", "write_response"}

\* C32, as stated: the codec rejects with MessageTooLarge(length), on both
\* read_request and write_request, every request frame whose payload is longer
\* than MAX_CID_SIZE + 1 = 41 bytes, and accepts a payload of exactly that length;
\* the same check with MAX_BLOCK_SIZE + 1 applies to response frames.
C32_RequestFrameBound41 ==
    /\ codec.op \in RequestOps => (codec.ok <=> codec.len <= 41)
    /\ codec.op \in ResponseOps => (codec.ok <=> codec.len <= MAX_BLOCK_SIZE + 1)

\* C32, amended: the bound of a request frame is MAX_CID_SIZE + 1 = 105 bytes
\* (MAX_CID_SIZE = 4 * 10 + 64): read_request and write_request reject every
\* longer payload with MessageTooLarge(length) and accept one of exactly 105
\* bytes; read_response and write_response do the same with MAX_BLOCK_SIZE + 1.
C32_RequestFrameBound ==
    /\ MAX_CID_SIZE + 1 = 105
    /\ codec.op \in RequestOps => (codec.ok <=> codec.len <= MAX_CID_SIZE + 1)
    /\ codec.op \in ResponseOps => (codec.ok <=> codec.len <= MAX_BLOCK_SIZE + 1)

\* C32 witness: read_request accepted a frame of exactly MAX_CID_SIZE + 1 bytes,
\* which is longer than 41
C32_Witness ==
    /\ codec.op = "read_request"
    /\ codec.len = MAX_CID_SIZE + 1
    /\ codec.len > 41
    /\ codec.ok

\* the blocks of the DAG rooted at cid
RECURSIVE DagBlocks(_, _)
DagBlocks(links, cid) ==
    {cid} \cup UNION {DagBlocks(links, links[cid][i]) : i \in 1 .. Len(links[cid])}

\* the cid of a sync started with missing = []: the cid of its first probe
SyncCid(root) == issued[root + 1].req.cid

\* the syncs for which poll returned Complete(root, Ok) to the host
SyncedRoots ==
    {surfaced[i].id : i \in {j \in 1 .. Len(surfaced) :
        surfaced[j].type = "Complete" /\ surfaced[j].ok /\ surfaced[j].id \in roots}}

\* C33: with a store whose inserts succeed and whose missing_blocks is accurate,
\* whenever poll returns Complete(root, Ok) for sync(Root, providers, missing = []),
\* every block of the DAG rooted at Root is in the local store.
C33_SyncOkHoldsDag ==
    \A root \in SyncedRoots : DagBlocks(limits.links, SyncCid(root)) \subseteq store

\* C33 witness: a sync of a DAG of two blocks of which the store held only the
\* root completed with Ok after the other block was fetched and inserted
C33_Witness ==
    /\ \E root \in SyncedRoots : Cardinality(DagBlocks(limits.links, SyncCid(root))) = 2
    /\ \E i \in 1 .. Len(db_done) : db_done[i].kind = "Insert"

\* C34: if cancel(root) returns true, no Complete(root, _) is in the event queue
\* at that moment and none is enqueued afterwards; a Complete event of a root and
\* a live record of that root never coexist. Hence no Complete was ever enqueued
\* for a root whose cancel returned true.
C34_CancelExcludesComplete ==
    /\ \A root \in cancelled \cap roots : root \notin CompletedIds
    /\ \A i \in 1 .. Len(events) : events[i].type = "Complete" => ~Live(events[i].id)

\* C34 witness: a root was cancelled with success while the Complete event of
\* another root was in the queue, and the requests of the cancelled root had been
\* dispatched
C34_Witness ==
    /\ \E root \in cancelled \cap roots : \E id \in DOMAIN issued : issued[id].root = root
    /\ \E i \in 1 .. Len(events) : events[i].type = "Complete"

\* the Requests of the given kind that the tree of root caused so far, dispatched
\* or still in the queue
RequestsOf(root, kind) ==
    Cardinality({id \in DOMAIN issued : issued[id].root = root /\ issued[id].req.kind = kind})
    + Cardinality({i \in 1 .. Len(events) :
          /\ events[i].type = "Request" /\ events[i].req.kind = kind
          /\ Live(events[i].id) /\ queries[events[i].id].root = root})

\* root is a get that was started with at least one provider: the query after it
\* is its first sub-query, a block request
IsGetRoot(root) ==
    \/ root + 1 \in DOMAIN issued
           /\ issued[root + 1].root = root /\ issued[root + 1].req.kind = "Block"
    \/ IsLeaf(root + 1) /\ queries[root + 1].parent = root /\ IsGet(root)

\* C35: a get started with n providers causes at most 2n - 1 Request events, under
\* any sequence of responses. A get asks its first provider for the block and each
\* other provider with a Have request, so n is the number of its Have requests
\* plus one; no Request of a get that was not cancelled is ever dropped.
C35_RequestsBounded ==
    \A root \in roots \ cancelled :
        IsGetRoot(root) =>
            LET n == RequestsOf(root, "Have") + 1
            IN RequestsOf(root, "Block") + RequestsOf(root, "Have") <= 2 * n - 1


\* the peer sub-queries whose request was dispatched and that no response has
\* yet completed
UnansweredPeerRequests == {id \in DOMAIN issued : Live(id) /\ issued[id].req.kind \in {"Have", "Block"}}

\* C36: every peer sub-request that was dispatched and is not yet answered has
\* its own entry in the requests map of the orchestrator, so that its response
\* is injected into the sub-query it answers: no two outstanding requests share
\* a key, legacy-protocol retries keyed by cid included.
C36_RequestsOwnEntry ==
    ~panicked =>
        /\ \A id \in UnansweredPeerRequests : \E key \in DOMAIN requests : requests[key] = id
        /\ \A k1, k2 \in DOMAIN requests : requests[k1] = requests[k2] => k1 = k2

====
